---- MODULE Spec2Model ----
(***************************************************************************)
(* MicromegasRawDataEvaluation: correlation of the FEE beam-crossing       *)
(* counter of every waveform with the LVL1 beam-crossing counters tagged   *)
(* in the same packet, and aggregation of the resulting samples and        *)
(* waveforms, as done by MicromegasRawDataEvaluation::process_event.       *)
(*                                                                         *)
(* One action per step of process_event: the event-type test, the reset,   *)
(* one iteration of the packet loop (with its whole tagger loop), one      *)
(* iteration of the waveform loop, the exit of the waveform loop, and the  *)
(* copy of the two multimaps into the container followed by the tree fill. *)
(* Fields that process_event only copies from the decoder, the mapping or  *)
(* the calibration into the records (layer, tile, strip, sampa address and *)
(* channel, checksum, tagger counters) are not carried.                    *)
(***************************************************************************)
EXTENDS Integers, Sequences, FiniteSets, TLC

----------------------------------------------------------------------------
(* Program constants *)

\* static constexpr unsigned int max_fee_bco_diff = 10
max_fee_bco_diff == 10

\* hard cap on the number of scanned entries of a waveform
max_scanned_samples == 1024

\* event types at or above this value are discarded
first_discarded_evt_type == 8

\* lvl1_bco_masked keeps the low 20 bits: & 0xFFFFFU
lvl1_bco_mask_modulus == 1048576

\* MicromegasDefs::m_adc_invalid, the reserved "no data" ADC value
m_adc_invalid == 65000

\* MicromegasDefs::m_nchannels_fee, number of channels of one FEE
m_nchannels_fee == 256

\* MicromegasDefs::m_packet_ids, the TPOT packets looked up in every event
m_packet_ids == <<5001, 5002>>

\* bits of m_flags
EvalSample == "EvalSample"
EvalWaveform == "EvalWaveform"
EvalTagger == "EvalTagger"

\* Fun4AllReturnCodes
EVENT_OK == "EVENT_OK"
DISCARDEVENT == "DISCARDEVENT"

----------------------------------------------------------------------------
(* Bounds of the exploration *)

\* Spec: number of calls of process_event in a run, and number of waveform
\* rows read over the whole run
MaxEvents == 2
MaxWaveforms == 2

\* SpecMatch: the same two bounds for the runs that look at the matching
\* inside one event
MatchEvents == 1
MatchWaveforms == 3

\* SpecScenario: number of waveform rows over the run (events: MatchEvents)
ScenarioWaveforms == 5

\* SpecAggregate: number of waveform rows over the run (events: MatchEvents)
AggregateWaveforms == 3

\* SpecPeak: number of waveform rows over the run (events: MatchEvents)
PeakWaveforms == 2

\* SpecSignal: number of waveform rows over the run (events: MatchEvents)
SignalWaveforms == 2

\* SpecRollover: number of waveform rows over the run (events: MatchEvents)
RolloverWaveforms == 3

----------------------------------------------------------------------------
(* Inputs handed over by the decoder *)

\* event types: one on each side of the cut
EvtTypes == {7, 8}

Fees == {0, 1}

\* one valid channel, and the first invalid one
Channels == {3, m_nchannels_fee}

\* 5 is within tolerance of the default pair; 55 and 60 are within
\* tolerance of each other and far from 5
FeeBcos == {5, 55, 60}

\* ADC arrays of a waveform row (SAMPLES is the length of the array)
AdcArrays == {<<9, m_adc_invalid, 9>>}

TaggerRow(bco, is_lvl1) == [bco |-> bco, is_lvl1 |-> is_lvl1]

\* tagger tables: one LVL1 tag, one LVL1 tag after a tag of another kind
TaggerTables ==
  {<<TaggerRow(1000, 1)>>,
   <<TaggerRow(1500, 0), TaggerRow(2000, 1)>>}

\* tagger tables with up to two LVL1 tags, not in ascending order
MatchTaggerTables ==
  {<<>>,
   <<TaggerRow(1000, 1)>>,
   <<TaggerRow(2000, 1), TaggerRow(1500, 0), TaggerRow(1000, 1)>>}

WaveformRow(fee, channel, bco, adc) ==
  [fee |-> fee, channel |-> channel, bco |-> bco, adc |-> adc]

\* the rows of a waveform table: every fee_bco for FEE 0, one for FEE 1
WaveformRows ==
  {WaveformRow(0, c, b, a) : c \in Channels, b \in FeeBcos, a \in AdcArrays}
    \cup {WaveformRow(1, 3, 55, a) : a \in AdcArrays}

AllFlags == {EvalSample, EvalWaveform, EvalTagger}

\* the calibration file: pedestal and rms of the channels, keyed by FEE and
\* channel; the channel of FEE 1 has no rms
CalibrationFile ==
  [key \in {<<0, 3>>, <<1, 3>>} |->
     IF key[1] = 0 THEN [pedestal |-> 10, rms |-> 2]
     ELSE [pedestal |-> 10, rms |-> 0]]

----------------------------------------------------------------------------
(* The end-to-end scenario: one FEE, LVL1 tags 1000, 2000, 3000 *)

ScenarioFeeBcos == {55, 56, 57, 200, 201}

ScenarioWaveformRows ==
  {WaveformRow(1, c, b, <<7>>) : c \in Channels, b \in ScenarioFeeBcos}

ScenarioTaggerTables ==
  {<<>>,
   <<TaggerRow(1000, 1), TaggerRow(2000, 1), TaggerRow(3000, 1)>>}

----------------------------------------------------------------------------
(* The inputs of the runs that look at the aggregation: waveforms with and
   without valid entries, a tagger table whose LVL1 tags are not ascending *)

AggregateFeeBcos == {5, 55}

AggregateAdcArrays == {<<9, m_adc_invalid, 9>>, <<m_adc_invalid>>}

AggregateWaveformRows ==
  {WaveformRow(0, c, b, a) : c \in Channels,
                             b \in AggregateFeeBcos, a \in AggregateAdcArrays}

AggregateTaggerTables ==
  {<<>>,
   <<TaggerRow(2000, 1), TaggerRow(1500, 0), TaggerRow(1000, 1)>>}

----------------------------------------------------------------------------
(* The inputs of the runs that look at the scan of a waveform: a peak that
   comes twice, no valid entry, no entry above 0, and more entries than are
   scanned *)

\* 1023 entries without data, then an entry at index 1023 and one at 1024
LongAdcArray ==
  [i \in 1..(max_scanned_samples + 1) |->
     IF i < max_scanned_samples THEN m_adc_invalid ELSE 9]

PeakAdcArrays ==
  {<<5, 10, 7, 10>>, <<m_adc_invalid, m_adc_invalid>>, <<m_adc_invalid, 0>>,
   LongAdcArray}

\* every shape on a valid channel of FEE 0, one row on an invalid channel
PeakWaveformRows ==
  {WaveformRow(0, 3, 55, a) : a \in PeakAdcArrays}
    \cup {WaveformRow(0, m_nchannels_fee, 55, <<5, 10, 7, 10>>)}

PeakTaggerTables == {<<>>, <<TaggerRow(1000, 1)>>}

----------------------------------------------------------------------------
(* The inputs of the runs that look at is_signal: peaks below, at and above
   pedestal + 3 rms of the channel of FEE 0, at index 0 and at index 1 *)

SignalAdcArrays == {<<15>>, <<16>>, <<17>>, <<m_adc_invalid, 17>>}

SignalWaveformRows ==
  {WaveformRow(0, c, 55, a) : c \in Channels, a \in SignalAdcArrays}
    \cup {WaveformRow(1, 3, 55, <<17>>)}

SignalTaggerTables == {<<TaggerRow(1000, 1)>>}

\* the thresholds set by the setters before the first event
SignalThresholds ==
  [n_sigma : {3}, min_adc : {0, 17}, sample_min : {0, 1},
   sample_max : {1, max_scanned_samples}]

----------------------------------------------------------------------------
(* State *)

VARIABLES
  m_flags,                 \* configuration: which records are evaluated
  verbosity,               \* configuration: what Verbosity() returns
  m_calibration_data,      \* configuration: fee_id -> pedestal and rms
  m_n_sigma,               \* configuration: signal threshold, in rms
  m_min_adc,               \* configuration: smallest adc_max of a signal
  m_sample_min,            \* configuration: first sample_max of a signal
  m_sample_max,            \* configuration: first sample_max past a signal
  m_fee_bco_matching_map,  \* fee_id -> (fee_bco, lvl1_bco) of the last pop
  m_bco_map,               \* lvl1_bco -> number of waveforms
  m_container,             \* samples, waveforms, taggers of the event
  tree_entries,            \* number of m_evaluation_tree->Fill() so far
  return_code,             \* what the last process_event returned
  evt_type,                \* what event->getEvtType() returned last
  pc,                      \* position inside process_event
  ipacket,                 \* index of the packet loop in m_packet_ids
  sample_map,              \* local multimap lvl1_bco -> Sample
  waveform_map,            \* local multimap lvl1_bco -> Waveform
  tagger_table,            \* local: the tagger table of the packet
  main_bco_list,           \* local: LVL1 bcos tagged in the packet
  bco_list_map,            \* local: fee_id -> not yet used LVL1 bcos
  orphans,                 \* local: (fee_id, fee_bco) already printed
  iwf,                     \* index of the waveform loop
  n_waveform,              \* NR_WF of the packet
  events_seen,             \* number of process_event calls so far
  rows_read,               \* number of waveform rows read so far
  wf_log,                  \* history: the rows matched in this event
  packet_entry,            \* history: state on entry of the waveform loop
  lvl1_tags,               \* history: bcos of the LVL1 tagger rows of the run
  n_matched                \* history: rows past the channel check in the run

\* what the setters fix before the first event
config == <<m_flags, verbosity, m_calibration_data, m_n_sigma, m_min_adc,
            m_sample_min, m_sample_max>>

vars == <<config, m_fee_bco_matching_map, m_bco_map, m_container,
          tree_entries, return_code, evt_type, pc, ipacket, sample_map,
          waveform_map,
          tagger_table, main_bco_list, bco_list_map, orphans, iwf,
          n_waveform, events_seen, rows_read, wf_log, packet_entry, lvl1_tags, n_matched>>

----------------------------------------------------------------------------
(* Helpers *)

EmptyMap == [k \in {} |-> 0]

\* std::map::operator[] on a map whose mapped type value-initializes to dflt
MapGet(map, key, dflt) == IF key \in DOMAIN map THEN map[key] ELSE dflt

MapPut(map, key, value) ==
  [k \in DOMAIN map \cup {key} |-> IF k = key THEN value ELSE map[k]]

\* A uint32_t is held as the integer that has the same 32 bits in two's
\* complement: a value below 2^31 as itself, a value v from 2^31 on as
\* v - 2^32. The operators below work on the two halves of 16 bits.
uint32_lo(a) == a % 65536

uint32_hi(a) == ((a - (a % 65536)) \div 65536) % 65536

\* the uint32_t made of two halves of 16 bits
uint32(hi, lo) == (IF hi >= 32768 THEN hi - 65536 ELSE hi) * 65536 + lo

\* operator < of two uint32_t
uint32_less(a, b) ==
  \/ uint32_hi(a) < uint32_hi(b)
  \/ uint32_hi(a) = uint32_hi(b) /\ uint32_lo(a) < uint32_lo(b)

\* operator - of two uint32_t: the difference modulo 2^32
uint32_minus(a, b) ==
  LET borrow == IF uint32_lo(a) < uint32_lo(b) THEN 1 ELSE 0
  IN uint32((uint32_hi(a) - uint32_hi(b) - borrow) % 65536,
            (uint32_lo(a) - uint32_lo(b)) % 65536)

\* a difference that is the shorter way round the 32-bit circle
get_bco_diff_around_rollover(first, second) ==
  IF uint32_less(uint32_minus(first, second), uint32_minus(second, first))
  THEN uint32_minus(first, second) ELSE uint32_minus(second, first)

\* get_bco_diff, of two uint32_t
get_bco_diff(first, second) ==
  IF uint32_less(first, second)
  THEN uint32_minus(second, first) ELSE uint32_minus(first, second)

\* value-initialized std::pair<unsigned int, uint64_t>
DefaultMatchingPair == [first |-> 0, second |-> 0]

\* a Sample with every member at its default
DefaultSample ==
  [packet_id |-> 0, fee_id |-> 0, channel |-> 0, fee_bco |-> 0,
   lvl1_bco |-> 0, lvl1_bco_masked |-> 0, sample |-> 0, adc |-> 0,
   pedestal |-> 0, rms |-> 0]

\* Waveform::copy_from, on a Waveform whose is_signal is still false
copy_from(sample) ==
  [packet_id |-> sample.packet_id, fee_id |-> sample.fee_id,
   channel |-> sample.channel, fee_bco |-> sample.fee_bco,
   lvl1_bco |-> sample.lvl1_bco, sample_max |-> sample.sample,
   adc_max |-> sample.adc, pedestal |-> sample.pedestal,
   rms |-> sample.rms, is_signal |-> FALSE]

\* MicromegasCalibrationData::get_pedestal: the pedestal the calibration
\* data hold for the channel
get_pedestal(fee_id, channel) == m_calibration_data[<<fee_id, channel>>].pedestal

\* MicromegasCalibrationData::get_rms
get_rms(fee_id, channel) == m_calibration_data[<<fee_id, channel>>].rms

\* an insertion that puts the new element before those of equal key
multimap_emplace_before_equal(map, key, value) ==
  LET n == Cardinality({i \in 1..Len(map) : map[i].key < key})
  IN SubSeq(map, 1, n) \o <<[key |-> key, value |-> value]>>
       \o SubSeq(map, n + 1, Len(map))

\* std::multimap::emplace: the new element goes after those of equal key
multimap_emplace(map, key, value) ==
  LET n == Cardinality({i \in 1..Len(map) : map[i].key <= key})
  IN SubSeq(map, 1, n) \o <<[key |-> key, value |-> value]>>
       \o SubSeq(map, n + 1, Len(map))

\* a copy that leaves out the elements stored under key 0
multimap_values_without_unmatched(map) ==
  LET matched == SelectSeq(map, LAMBDA element : element.key # 0)
  IN [i \in 1..Len(matched) |-> matched[i].value]

\* the mapped values of a multimap in iteration order
multimap_values(map) == [i \in 1..Len(map) |-> map[i].value]

\* Container::Reset
Reset(container) == [samples |-> <<>>, waveforms |-> <<>>, taggers |-> <<>>]

----------------------------------------------------------------------------
(* The tagger loop of one packet *)

\* the TaggerInformation filled from row t of the tagger table
tagger_information(packet_id, row) ==
  [packet_id |-> packet_id, is_lvl1 |-> row.is_lvl1 % 256, bco |-> row.bco]

\* m_container->taggers after the tagger loop
push_back_taggers(taggers, flags, packet_id, table) ==
  IF EvalTagger \in flags
  THEN taggers \o [t \in 1..Len(table) |-> tagger_information(packet_id, table[t])]
  ELSE taggers

\* main_bco_list after the tagger loop
\* a list made of the bco of every tagger row, of LVL1 or not
tagged_bcos_of_all_rows(flags, packet_id, table) ==
  IF flags \cap {EvalSample, EvalWaveform} # {}
  THEN [t \in 1..Len(table) |-> table[t].bco]
  ELSE <<>>

tagged_lvl1_bcos(flags, packet_id, table) ==
  IF flags \cap {EvalSample, EvalWaveform} # {}
  THEN LET lvl1 == SelectSeq(table,
                     LAMBDA row : tagger_information(packet_id, row).is_lvl1 # 0)
       IN [t \in 1..Len(lvl1) |-> lvl1[t].bco]
  ELSE <<>>

----------------------------------------------------------------------------
(* One iteration of the waveform loop *)

\* the main list is also inserted again when the FEE's list has run empty
find_bco_list_refilling(list_map, fee_id, main_list) ==
  IF fee_id \in DOMAIN list_map /\ list_map[fee_id] # <<>>
  THEN list_map ELSE MapPut(list_map, fee_id, main_list)

\* bco_list_map after the lookup of the FEE's list: the main list is
\* inserted when the FEE has none
find_bco_list(list_map, fee_id, main_list) ==
  IF fee_id \in DOMAIN list_map THEN list_map ELSE MapPut(list_map, fee_id, main_list)

\* the first available lvl1 bco is used but left in the FEE's list
pop_front_match_keeping_front(matching_map, list_map, fee_id, fee_bco) ==
  LET lvl1_bco == Head(list_map[fee_id])
  IN [matching_map |-> MapPut(matching_map, fee_id,
                              [first |-> fee_bco, second |-> lvl1_bco]),
      bco_list_map |-> list_map,
      lvl1_bco |-> lvl1_bco,
      lvl1_bco_masked |-> lvl1_bco % lvl1_bco_mask_modulus]

\* the first available lvl1 bco is used but the last one is removed
pop_front_match_removing_back(matching_map, list_map, fee_id, fee_bco) ==
  LET lvl1_bco == Head(list_map[fee_id])
  IN [matching_map |-> MapPut(matching_map, fee_id,
                              [first |-> fee_bco, second |-> lvl1_bco]),
      bco_list_map |-> MapPut(list_map, fee_id,
                              SubSeq(list_map[fee_id], 1, Len(list_map[fee_id]) - 1)),
      lvl1_bco |-> lvl1_bco,
      lvl1_bco_masked |-> lvl1_bco % lvl1_bco_mask_modulus]

\* the first available lvl1 bco is removed from the list of every FEE
pop_front_match_all_lists(matching_map, list_map, fee_id, fee_bco) ==
  LET lvl1_bco == Head(list_map[fee_id])
  IN [matching_map |-> MapPut(matching_map, fee_id,
                              [first |-> fee_bco, second |-> lvl1_bco]),
      bco_list_map |-> [f \in DOMAIN list_map |->
                          IF list_map[f] = <<>> THEN <<>> ELSE Tail(list_map[f])],
      lvl1_bco |-> lvl1_bco,
      lvl1_bco_masked |-> lvl1_bco % lvl1_bco_mask_modulus]

\* the running pair is replaced by the new fee_bco and the first available
\* lvl1 bco, which is removed from the FEE's list
pop_front_match(matching_map, list_map, fee_id, fee_bco) ==
  LET lvl1_bco == Head(list_map[fee_id])
  IN [matching_map |-> MapPut(matching_map, fee_id,
                              [first |-> fee_bco, second |-> lvl1_bco]),
      bco_list_map |-> MapPut(list_map, fee_id, Tail(list_map[fee_id])),
      lvl1_bco |-> lvl1_bco,
      lvl1_bco_masked |-> lvl1_bco % lvl1_bco_mask_modulus]

\* reuse that also moves the cached fee_bco to the one of the waveform
reuse_match_moving_fee_bco(matching_map, list_map, fee_id, fee_bco) ==
  [matching_map |-> MapPut(matching_map, fee_id,
                           [first |-> fee_bco, second |-> matching_map[fee_id].second]),
   bco_list_map |-> list_map,
   lvl1_bco |-> matching_map[fee_id].second,
   lvl1_bco_masked |-> matching_map[fee_id].second % lvl1_bco_mask_modulus]

\* reuse that moves the lvl1 bco by as much as the fee_bco has moved
reuse_match_extrapolating(matching_map, list_map, fee_id, fee_bco) ==
  LET lvl1_bco == matching_map[fee_id].second
                    + get_bco_diff(fee_bco, matching_map[fee_id].first)
  IN [matching_map |-> matching_map,
      bco_list_map |-> list_map,
      lvl1_bco |-> lvl1_bco,
      lvl1_bco_masked |-> lvl1_bco % lvl1_bco_mask_modulus]

\* the fee_bco is close to the one of the running pair: the lvl1 bco of the
\* pair is given to the waveform
reuse_match(matching_map, list_map, fee_id, fee_bco) ==
  [matching_map |-> matching_map,
   bco_list_map |-> list_map,
   lvl1_bco |-> matching_map[fee_id].second,
   lvl1_bco_masked |-> matching_map[fee_id].second % lvl1_bco_mask_modulus]

\* no match that also forgets the running pair of the FEE
orphan_match_clearing_pair(matching_map, list_map, fee_id, fee_bco) ==
  [matching_map |-> MapPut(matching_map, fee_id, DefaultMatchingPair),
   bco_list_map |-> list_map,
   lvl1_bco |-> 0,
   lvl1_bco_masked |-> 0]

\* the FEE's list is empty: the waveform keeps lvl1_bco 0
orphan_match(matching_map, list_map, fee_id, fee_bco) ==
  [matching_map |-> matching_map,
   bco_list_map |-> list_map,
   lvl1_bco |-> 0,
   lvl1_bco_masked |-> 0]

\* a match that prints nothing about orphans
no_report(match, orphan_set) ==
  [matching_map |-> match.matching_map, bco_list_map |-> match.bco_list_map,
   lvl1_bco |-> match.lvl1_bco, lvl1_bco_masked |-> match.lvl1_bco_masked,
   orphans |-> orphan_set, reported |-> FALSE]

\* a report that prints the line without looking at the set of orphans
report_orphan_every_time(match, orphan_set, fee_id, fee_bco) ==
  [matching_map |-> match.matching_map, bco_list_map |-> match.bco_list_map,
   lvl1_bco |-> match.lvl1_bco, lvl1_bco_masked |-> match.lvl1_bco_masked,
   orphans |-> IF verbosity # 0 THEN orphan_set \cup {<<fee_id, fee_bco>>}
               ELSE orphan_set,
   reported |-> verbosity # 0]

\* Verbosity() && orphans.insert(...).second: with verbosity the pair is
\* inserted, and the line is printed when the pair was not yet in the set
report_orphan(match, orphan_set, fee_id, fee_bco) ==
  [matching_map |-> match.matching_map, bco_list_map |-> match.bco_list_map,
   lvl1_bco |-> match.lvl1_bco, lvl1_bco_masked |-> match.lvl1_bco_masked,
   orphans |-> IF verbosity # 0 THEN orphan_set \cup {<<fee_id, fee_bco>>}
               ELSE orphan_set,
   reported |-> verbosity # 0 /\ <<fee_id, fee_bco>> \notin orphan_set]

\* the matching of one waveform: the two maps and the set of orphans
\* afterwards, and the lvl1 bco written to the running sample
find_matching_lvl1_bco(matching_map, list_map, orphan_set, main_list, fee_id, fee_bco) ==
  LET bco_matching_pair == MapGet(matching_map, fee_id, DefaultMatchingPair)
      accessed == MapPut(matching_map, fee_id, bco_matching_pair)
  IN IF uint32_less(get_bco_diff(fee_bco, bco_matching_pair.first),
                    max_fee_bco_diff)
     THEN no_report(reuse_match(accessed, list_map, fee_id, fee_bco), orphan_set)
     ELSE LET found == find_bco_list(list_map, fee_id, main_list)
          IN IF found[fee_id] # <<>>
             THEN no_report(pop_front_match(accessed, found, fee_id, fee_bco),
                            orphan_set)
             ELSE report_orphan(orphan_match(accessed, found, fee_id, fee_bco),
                                orphan_set, fee_id, fee_bco)

Min(a, b) == IF a < b THEN a ELSE b

\* the number of entries of a row, as the unsigned short the code reads
samples_of(adc_array) == Len(adc_array) % 65536

\* a scan that goes over every entry of the row, however many
scanned_entries_to_the_end(adc_array, is) ==
  {i \in is..(samples_of(adc_array) - 1) :
     adc_array[i + 1] % 65536 # m_adc_invalid}

\* the indices at which the loop over the entries gets past its continue:
\* from is on, below min(samples, 1024), with an entry that holds data
scanned_entries(adc_array, is) ==
  {i \in is..(Min(samples_of(adc_array), max_scanned_samples) - 1) :
     adc_array[i + 1] % 65536 # m_adc_invalid}

\* one iteration of the loop over the entries of the waveform: the entry is
\* stored in the sample map, and kept when it is larger than the largest
\* so far; st holds the running sample, the sample map and sample_max
scan_step(st, adc_array, is) ==
  LET current == [st.sample EXCEPT !.sample = is,
                                   !.adc = adc_array[is + 1] % 65536]
  IN [sample |-> current,
      sample_map |-> multimap_emplace(st.sample_map, current.lvl1_bco, current),
      sample_max |-> IF current.adc > st.sample_max.adc
                     THEN current ELSE st.sample_max]

\* the iterations of the loop at the given indices, by increasing index
RECURSIVE scan_range(_, _, _)
scan_range(st, adc_array, indices) ==
  IF indices = {} THEN st
  ELSE LET is == CHOOSE i \in indices : \A j \in indices : i <= j
       IN scan_range(scan_step(st, adc_array, is), adc_array, indices \ {is})

\* the loop over the entries of the waveform, from index is on: no more
\* than the first 1024 entries are looked at
scan_samples(sample, adc_array, is, map, sample_max) ==
  LET st == scan_range([sample |-> sample, sample_map |-> map,
                        sample_max |-> sample_max],
                       adc_array, scanned_entries(adc_array, is))
  IN [sample_map |-> st.sample_map, sample_max |-> st.sample_max]

\* a classification that takes a peak at the threshold for a signal
is_signal_at_threshold(waveform, pedestal, rms) ==
  /\ rms > 0
  /\ waveform.adc_max >= m_min_adc
  /\ waveform.sample_max >= m_sample_min
  /\ waveform.sample_max < m_sample_max
  /\ waveform.adc_max >= pedestal + m_n_sigma * rms

\* waveform.is_signal, from the pedestal and the rms of the row's channel
is_signal(waveform, pedestal, rms) ==
  /\ rms > 0
  /\ waveform.adc_max >= m_min_adc
  /\ waveform.sample_max >= m_sample_min
  /\ waveform.sample_max < m_sample_max
  /\ waveform.adc_max > pedestal + m_n_sigma * rms

\* the waveform map after the waveform made of the largest sample is stored
emplace_waveform(map, flags, sample_max, pedestal, rms) ==
  IF EvalWaveform \in flags
  THEN LET copied == copy_from(sample_max)
           waveform == [copied EXCEPT !.is_signal = is_signal(copied, pedestal, rms)]
       IN multimap_emplace(map, waveform.lvl1_bco, waveform)
  ELSE map

\* a count that leaves out the waveforms without lvl1 bco
count_waveform_when_matched(bco_map, lvl1_bco) ==
  IF lvl1_bco = 0 THEN bco_map
  ELSE MapPut(bco_map, lvl1_bco, MapGet(bco_map, lvl1_bco, 0) + 1)

\* ++m_bco_map[sample.lvl1_bco]: a lvl1 bco not yet counted starts at 0
count_waveform(bco_map, lvl1_bco) ==
  MapPut(bco_map, lvl1_bco, MapGet(bco_map, lvl1_bco, 0) + 1)

\* the body of the waveform loop for a row whose channel is valid;
\* st holds the five maps the body reads and writes
waveform_body(st, flags, packet_id, main_list, row) ==
  LET match == find_matching_lvl1_bco(st.matching_map, st.bco_list_map,
                                      st.orphans, main_list, row.fee, row.bco)
      pedestal == get_pedestal(row.fee, row.channel)
      rms == get_rms(row.fee, row.channel)
      sample == [packet_id |-> packet_id, fee_id |-> row.fee,
                 channel |-> row.channel, fee_bco |-> row.bco,
                 lvl1_bco |-> match.lvl1_bco,
                 lvl1_bco_masked |-> match.lvl1_bco_masked,
                 sample |-> 0, adc |-> 0, pedestal |-> pedestal, rms |-> rms]
      scan == scan_samples(sample, row.adc, 0, st.sample_map, DefaultSample)
  IN [matching_map |-> match.matching_map,
      bco_list_map |-> match.bco_list_map,
      orphans |-> match.orphans,
      reported |-> match.reported,
      bco_map |-> count_waveform(st.bco_map, sample.lvl1_bco),
      sample_map |-> scan.sample_map,
      waveform_map |-> emplace_waveform(st.waveform_map, flags, scan.sample_max,
                                        pedestal, rms),
      sample |-> sample]

\* the waveform loop over the rows of a whole table, from the maps in st;
\* assigned is the sequence of the lvl1 bcos given to the rows
RECURSIVE waveform_loop(_, _, _, _, _, _)
waveform_loop(st, flags, packet_id, main_list, rows, assigned) ==
  IF rows = <<>>
  THEN [matching_map |-> st.matching_map, bco_list_map |-> st.bco_list_map,
        orphans |-> st.orphans, bco_map |-> st.bco_map,
        sample_map |-> st.sample_map, waveform_map |-> st.waveform_map,
        assigned |-> assigned]
  ELSE LET after == waveform_body(st, flags, packet_id, main_list, Head(rows))
       IN waveform_loop(after, flags, packet_id, main_list, Tail(rows),
                        Append(assigned, after.sample.lvl1_bco))

\* the five maps and the set of orphans as the waveform loop sees them
loop_state ==
  [matching_map |-> m_fee_bco_matching_map, bco_list_map |-> bco_list_map,
   orphans |-> orphans, bco_map |-> m_bco_map, sample_map |-> sample_map,
   waveform_map |-> waveform_map]

\* what the history keeps of a matched row: the row, the lvl1 bco given to it, the FEE's pair and list before it, the
\* FEE's list after it, the main list of its packet, and whether the orphan
\* line was printed
log_entry(st, packet_id, main_list, row, after) ==
  [packet_id |-> packet_id, fee_id |-> row.fee, channel |-> row.channel,
   fee_bco |-> row.bco, adc |-> row.adc,
   reported |-> after.reported,
   lvl1_bco |-> after.sample.lvl1_bco,
   lvl1_bco_masked |-> after.sample.lvl1_bco_masked,
   known |-> row.fee \in DOMAIN st.matching_map,
   cached |-> MapGet(st.matching_map, row.fee, DefaultMatchingPair),
   had_list |-> row.fee \in DOMAIN st.bco_list_map,
   list_before |-> MapGet(st.bco_list_map, row.fee, <<>>),
   has_list |-> row.fee \in DOMAIN after.bco_list_map,
   list |-> MapGet(after.bco_list_map, row.fee, <<>>),
   main |-> main_list,
   pedestal |-> after.sample.pedestal, rms |-> after.sample.rms]

NoPacketEntry == [none |-> TRUE]

----------------------------------------------------------------------------
(* Initial state: the module after Init(), before the first event *)

\* the module after its constructor and Init(): nothing matched, nothing read
Constructed ==
  /\ m_fee_bco_matching_map = EmptyMap
  /\ m_bco_map = EmptyMap
  /\ m_container = [samples |-> <<>>, waveforms |-> <<>>, taggers |-> <<>>]
  /\ tree_entries = 0
  /\ return_code = "none"
  /\ evt_type = 0
  /\ pc = "idle"
  /\ ipacket = 0
  /\ sample_map = <<>>
  /\ waveform_map = <<>>
  /\ tagger_table = <<>>
  /\ main_bco_list = <<>>
  /\ bco_list_map = EmptyMap
  /\ orphans = {}
  /\ iwf = 0
  /\ n_waveform = 0
  /\ events_seen = 0
  /\ rows_read = 0
  /\ wf_log = <<>>
  /\ packet_entry = NoPacketEntry
  /\ lvl1_tags = {}
  /\ n_matched = 0

\* no call of a setter: silent, default thresholds, the calibration file
DefaultConfig ==
  /\ verbosity = 0
  /\ m_calibration_data = CalibrationFile
  /\ m_n_sigma = 5
  /\ m_min_adc = 50
  /\ m_sample_min = 0
  /\ m_sample_max = 100

Init ==
  /\ Constructed
  /\ m_flags \in SUBSET AllFlags
  /\ DefaultConfig

----------------------------------------------------------------------------
(* process_event *)

\* a discard that comes after the reset of the container
discard_event_after_reset(type, max_events) ==
  /\ pc = "idle"
  /\ events_seen < max_events
  /\ evt_type' = type
  /\ type >= first_discarded_evt_type
  /\ m_container' = Reset(m_container)
  /\ return_code' = DISCARDEVENT
  /\ events_seen' = events_seen + 1
  /\ UNCHANGED <<config, m_fee_bco_matching_map, m_bco_map,
                 tree_entries, pc, ipacket, sample_map, waveform_map,
                 tagger_table, main_bco_list, bco_list_map, orphans, iwf,
                 n_waveform, rows_read, wf_log, packet_entry, lvl1_tags,
                 n_matched>>

\* the event type is 8 or more: the event is discarded
discard_event(type, max_events) ==
  /\ pc = "idle"
  /\ events_seen < max_events
  /\ evt_type' = type
  /\ type >= first_discarded_evt_type
  /\ return_code' = DISCARDEVENT
  /\ events_seen' = events_seen + 1
  /\ UNCHANGED <<config, m_fee_bco_matching_map, m_bco_map, m_container,
                 tree_entries, pc, ipacket, sample_map, waveform_map,
                 tagger_table, main_bco_list, bco_list_map, orphans, iwf,
                 n_waveform, rows_read, wf_log, packet_entry, lvl1_tags,
                 n_matched>>

\* the start of an event that also forgets the running pairs of the FEEs
begin_event_forgetting_matches(type, max_events) ==
  /\ pc = "idle"
  /\ events_seen < max_events
  /\ evt_type' = type
  /\ type < first_discarded_evt_type
  /\ m_container' = Reset(m_container)
  /\ m_fee_bco_matching_map' = EmptyMap
  /\ sample_map' = <<>>
  /\ waveform_map' = <<>>
  /\ ipacket' = 1
  /\ pc' = "packets"
  /\ return_code' = "none"
  /\ events_seen' = events_seen + 1
  /\ wf_log' = <<>>
  /\ UNCHANGED <<config, m_bco_map, tree_entries, tagger_table, main_bco_list,
                 bco_list_map, orphans, iwf, n_waveform, rows_read,
                 packet_entry, lvl1_tags, n_matched>>

\* the start of an event that leaves the container as the last event left it
begin_event_without_reset(type, max_events) ==
  /\ pc = "idle"
  /\ events_seen < max_events
  /\ evt_type' = type
  /\ type < first_discarded_evt_type
  /\ sample_map' = <<>>
  /\ waveform_map' = <<>>
  /\ ipacket' = 1
  /\ pc' = "packets"
  /\ return_code' = "none"
  /\ events_seen' = events_seen + 1
  /\ wf_log' = <<>>
  /\ UNCHANGED <<config, m_fee_bco_matching_map, m_bco_map, m_container,
                 tree_entries, tagger_table, main_bco_list, bco_list_map,
                 orphans, iwf, n_waveform, rows_read, packet_entry, lvl1_tags,
                 n_matched>>

\* the container is reset, the two multimaps are created empty and the
\* packet loop is entered
begin_event(type, max_events) ==
  /\ pc = "idle"
  /\ events_seen < max_events
  /\ evt_type' = type
  /\ type < first_discarded_evt_type
  /\ m_container' = Reset(m_container)
  /\ sample_map' = <<>>
  /\ waveform_map' = <<>>
  /\ ipacket' = 1
  /\ pc' = "packets"
  /\ return_code' = "none"
  /\ events_seen' = events_seen + 1
  /\ wf_log' = <<>>
  /\ UNCHANGED <<config, m_fee_bco_matching_map, m_bco_map, tree_entries,
                 tagger_table, main_bco_list, bco_list_map, orphans, iwf, n_waveform,
                 rows_read, packet_entry, lvl1_tags, n_matched>>

\* getPacket returns no packet: continue with the next packet id
packet_not_found ==
  /\ pc = "packets"
  /\ ipacket <= Len(m_packet_ids)
  /\ ipacket' = ipacket + 1
  /\ UNCHANGED <<config, m_fee_bco_matching_map, m_bco_map, m_container,
                 tree_entries, return_code, evt_type, pc, sample_map, waveform_map,
                 tagger_table, main_bco_list, bco_list_map, orphans, iwf,
                 n_waveform, events_seen, rows_read, wf_log, packet_entry,
                 lvl1_tags, n_matched>>

\* whether the waveform loop of a packet is run at all
loop_over_waveforms == m_flags \cap {EvalSample, EvalWaveform} # {}

\* the packet is there: its tagger table is read, the number of its
\* waveforms is read, and the lists of the waveform loop are created empty
read_packet(table, nr_wf, max_rows) ==
  /\ pc = "packets"
  /\ ipacket <= Len(m_packet_ids)
  /\ nr_wf <= (IF loop_over_waveforms THEN max_rows - rows_read ELSE 0)
  /\ tagger_table' = table
  /\ m_container' = [m_container EXCEPT !.taggers =
                       push_back_taggers(@, m_flags, m_packet_ids[ipacket], table)]
  /\ main_bco_list' = tagged_lvl1_bcos(m_flags, m_packet_ids[ipacket], table)
  /\ bco_list_map' = EmptyMap
  /\ orphans' = {}
  /\ iwf' = 0
  /\ n_waveform' = nr_wf
  /\ rows_read' = rows_read + nr_wf
  /\ pc' = "waveforms"
  /\ packet_entry' = loop_state
  /\ lvl1_tags' = lvl1_tags \cup {table[t].bco : t \in {u \in DOMAIN table :
                                                           table[u].is_lvl1 # 0}}
  /\ UNCHANGED <<config, m_fee_bco_matching_map, m_bco_map, tree_entries,
                 return_code, evt_type, ipacket, sample_map, waveform_map, events_seen,
                 wf_log, n_matched>>

\* a skip that counts the row as a waveform without lvl1 bco
invalid_channel_counted(row) ==
  /\ pc = "waveforms"
  /\ loop_over_waveforms
  /\ iwf < n_waveform
  /\ row.channel >= m_nchannels_fee
  /\ iwf' = iwf + 1
  /\ m_bco_map' = count_waveform(m_bco_map, 0)
  /\ UNCHANGED <<config, m_fee_bco_matching_map, m_container,
                 tree_entries, return_code, evt_type, pc, ipacket, sample_map,
                 waveform_map, tagger_table, main_bco_list, bco_list_map,
                 orphans, n_waveform, events_seen, rows_read, wf_log,
                 packet_entry, lvl1_tags, n_matched>>

\* the channel of the row is out of range: the row is skipped
invalid_channel(row) ==
  /\ pc = "waveforms"
  /\ loop_over_waveforms
  /\ iwf < n_waveform
  /\ row.channel >= m_nchannels_fee
  /\ iwf' = iwf + 1
  /\ UNCHANGED <<config, m_fee_bco_matching_map, m_bco_map, m_container,
                 tree_entries, return_code, evt_type, pc, ipacket, sample_map,
                 waveform_map, tagger_table, main_bco_list, bco_list_map,
                 orphans, n_waveform, events_seen, rows_read, wf_log,
                 packet_entry, lvl1_tags, n_matched>>

\* the row is matched to a lvl1 bco, counted, scanned and stored
process_waveform(row) ==
  /\ pc = "waveforms"
  /\ loop_over_waveforms
  /\ iwf < n_waveform
  /\ row.channel < m_nchannels_fee
  /\ LET after == waveform_body(loop_state, m_flags, m_packet_ids[ipacket],
                                main_bco_list, row)
     IN /\ m_fee_bco_matching_map' = after.matching_map
        /\ bco_list_map' = after.bco_list_map
        /\ orphans' = after.orphans
        /\ m_bco_map' = after.bco_map
        /\ sample_map' = after.sample_map
        /\ waveform_map' = after.waveform_map
        /\ wf_log' = Append(wf_log,
                            log_entry(loop_state, m_packet_ids[ipacket],
                                      main_bco_list, row, after))
  /\ iwf' = iwf + 1
  /\ n_matched' = n_matched + 1
  /\ UNCHANGED <<config, m_container, tree_entries, return_code, evt_type, pc, ipacket,
                 tagger_table, main_bco_list, n_waveform, events_seen,
                 rows_read, packet_entry, lvl1_tags>>

\* the waveform loop is over, or is not run: the packet and its lists go
\* out of scope
end_of_packet ==
  /\ pc = "waveforms"
  /\ ~loop_over_waveforms \/ iwf >= n_waveform
  /\ tagger_table' = <<>>
  /\ main_bco_list' = <<>>
  /\ bco_list_map' = EmptyMap
  /\ orphans' = {}
  /\ iwf' = 0
  /\ n_waveform' = 0
  /\ ipacket' = ipacket + 1
  /\ pc' = "packets"
  /\ packet_entry' = NoPacketEntry
  /\ UNCHANGED <<config, m_fee_bco_matching_map, m_bco_map, m_container,
                 tree_entries, return_code, evt_type, sample_map, waveform_map,
                 events_seen, rows_read, wf_log, lvl1_tags, n_matched>>

\* the packet loop is over: the two multimaps are copied to the container
\* in key order, the tree is filled, and the multimaps go out of scope
end_of_event ==
  /\ pc = "packets"
  /\ ipacket > Len(m_packet_ids)
  /\ m_container' =
       [m_container EXCEPT
          !.samples = IF EvalSample \in m_flags
                      THEN @ \o multimap_values(sample_map) ELSE @,
          !.waveforms = IF EvalWaveform \in m_flags
                        THEN @ \o multimap_values(waveform_map) ELSE @]
  /\ tree_entries' = tree_entries + 1
  /\ return_code' = EVENT_OK
  /\ evt_type' = evt_type
  /\ sample_map' = <<>>
  /\ waveform_map' = <<>>
  /\ ipacket' = 0
  /\ pc' = "idle"
  /\ UNCHANGED <<config, m_fee_bco_matching_map, m_bco_map, tagger_table,
                 main_bco_list, bco_list_map, orphans, iwf, n_waveform,
                 events_seen, rows_read, wf_log, packet_entry, lvl1_tags,
                 n_matched>>

---------------------------------------------------------------------------------------------------------------------------------------------------
(* Spec: runs of several events under every configuration *)

DiscardEvent == \E type \in EvtTypes : discard_event(type, MaxEvents)

BeginEvent == \E type \in EvtTypes : begin_event(type, MaxEvents)

PacketNotFound == packet_not_found

ReadPacket ==
  \E table \in TaggerTables, nr_wf \in 0..MaxWaveforms :
    read_packet(table, nr_wf, MaxWaveforms)

InvalidChannel == \E row \in WaveformRows : invalid_channel(row)

ProcessWaveform == \E row \in WaveformRows : process_waveform(row)

EndOfPacket == end_of_packet

EndOfEvent == end_of_event

Next ==
  \/ DiscardEvent
  \/ BeginEvent
  \/ PacketNotFound
  \/ ReadPacket
  \/ InvalidChannel
  \/ ProcessWaveform
  \/ EndOfPacket
  \/ EndOfEvent

Spec == Init /\ [][Next]_vars

----------------------------------------------------------------------------
(* SpecMatch: longer packets, with samples and waveforms evaluated *)

InitMatch == Init /\ m_flags = {EvalSample, EvalWaveform}

MatchDiscardEvent == \E type \in EvtTypes : discard_event(type, MatchEvents)

MatchBeginEvent == \E type \in EvtTypes : begin_event(type, MatchEvents)

MatchPacketNotFound == packet_not_found

MatchReadPacket ==
  \E table \in MatchTaggerTables, nr_wf \in 0..MatchWaveforms :
    read_packet(table, nr_wf, MatchWaveforms)

MatchInvalidChannel == \E row \in WaveformRows : invalid_channel(row)

MatchProcessWaveform == \E row \in WaveformRows : process_waveform(row)

MatchEndOfPacket == end_of_packet

MatchEndOfEvent == end_of_event

NextMatch ==
  \/ MatchDiscardEvent
  \/ MatchBeginEvent
  \/ MatchPacketNotFound
  \/ MatchReadPacket
  \/ MatchInvalidChannel
  \/ MatchProcessWaveform
  \/ MatchEndOfPacket
  \/ MatchEndOfEvent

SpecMatch == InitMatch /\ [][NextMatch]_vars

----------------------------------------------------------------------------
(* SpecScenario: one FEE and the tagger table of the end-to-end scenario *)

InitScenario == Init /\ m_flags = {EvalWaveform}

ScenarioDiscardEvent == \E type \in EvtTypes : discard_event(type, MatchEvents)

ScenarioBeginEvent == \E type \in EvtTypes : begin_event(type, MatchEvents)

ScenarioPacketNotFound == packet_not_found

ScenarioReadPacket ==
  \E table \in ScenarioTaggerTables, nr_wf \in 0..ScenarioWaveforms :
    read_packet(table, nr_wf, ScenarioWaveforms)

ScenarioInvalidChannel == \E row \in ScenarioWaveformRows : invalid_channel(row)

\* the rows of the scenario come by ascending fee_bco within an event
InScenarioOrder(row) == \A k \in DOMAIN wf_log : wf_log[k].fee_bco < row.bco

ScenarioProcessWaveform ==
  \E row \in ScenarioWaveformRows : InScenarioOrder(row) /\ process_waveform(row)

ScenarioEndOfPacket == end_of_packet

ScenarioEndOfEvent == end_of_event

NextScenario ==
  \/ ScenarioDiscardEvent
  \/ ScenarioBeginEvent
  \/ ScenarioPacketNotFound
  \/ ScenarioReadPacket
  \/ ScenarioInvalidChannel
  \/ ScenarioProcessWaveform
  \/ ScenarioEndOfPacket
  \/ ScenarioEndOfEvent

SpecScenario == InitScenario /\ [][NextScenario]_vars

----------------------------------------------------------------------------
(* SpecAggregate: every configuration, waveforms with and without valid
   entries *)

AggregateDiscardEvent == \E type \in EvtTypes : discard_event(type, MatchEvents)

AggregateBeginEvent == \E type \in EvtTypes : begin_event(type, MatchEvents)

AggregatePacketNotFound == packet_not_found

AggregateReadPacket ==
  \E table \in AggregateTaggerTables, nr_wf \in 0..AggregateWaveforms :
    read_packet(table, nr_wf, AggregateWaveforms)

AggregateInvalidChannel == \E row \in AggregateWaveformRows : invalid_channel(row)

AggregateProcessWaveform == \E row \in AggregateWaveformRows : process_waveform(row)

AggregateEndOfPacket == end_of_packet

AggregateEndOfEvent == end_of_event

NextAggregate ==
  \/ AggregateDiscardEvent
  \/ AggregateBeginEvent
  \/ AggregatePacketNotFound
  \/ AggregateReadPacket
  \/ AggregateInvalidChannel
  \/ AggregateProcessWaveform
  \/ AggregateEndOfPacket
  \/ AggregateEndOfEvent

SpecAggregate == Init /\ [][NextAggregate]_vars

----------------------------------------------------------------------------
(* SpecPeak: samples and waveforms evaluated, verbose, waveforms of every
   shape *)

InitPeak ==
  /\ Constructed
  /\ m_flags = {EvalSample, EvalWaveform}
  /\ verbosity = 1
  /\ m_calibration_data = CalibrationFile
  /\ m_n_sigma = 5
  /\ m_min_adc = 50
  /\ m_sample_min = 0
  /\ m_sample_max = 100

PeakDiscardEvent == \E type \in EvtTypes : discard_event(type, MatchEvents)

PeakBeginEvent == \E type \in EvtTypes : begin_event(type, MatchEvents)

PeakPacketNotFound == packet_not_found

PeakReadPacket ==
  \E table \in PeakTaggerTables, nr_wf \in 0..PeakWaveforms :
    read_packet(table, nr_wf, PeakWaveforms)

PeakInvalidChannel == \E row \in PeakWaveformRows : invalid_channel(row)

PeakProcessWaveform == \E row \in PeakWaveformRows : process_waveform(row)

PeakEndOfPacket == end_of_packet

PeakEndOfEvent == end_of_event

NextPeak ==
  \/ PeakDiscardEvent
  \/ PeakBeginEvent
  \/ PeakPacketNotFound
  \/ PeakReadPacket
  \/ PeakInvalidChannel
  \/ PeakProcessWaveform
  \/ PeakEndOfPacket
  \/ PeakEndOfEvent

SpecPeak == InitPeak /\ [][NextPeak]_vars

----------------------------------------------------------------------------
(* SpecSignal: waveforms evaluated under several sets of thresholds *)

InitSignal ==
  /\ Constructed
  /\ m_flags = {EvalWaveform}
  /\ verbosity = 0
  /\ m_calibration_data = CalibrationFile
  /\ \E thresholds \in SignalThresholds :
       /\ m_n_sigma = thresholds.n_sigma
       /\ m_min_adc = thresholds.min_adc
       /\ m_sample_min = thresholds.sample_min
       /\ m_sample_max = thresholds.sample_max

SignalDiscardEvent == \E type \in EvtTypes : discard_event(type, MatchEvents)

SignalBeginEvent == \E type \in EvtTypes : begin_event(type, MatchEvents)

SignalPacketNotFound == packet_not_found

SignalReadPacket ==
  \E table \in SignalTaggerTables, nr_wf \in 0..SignalWaveforms :
    read_packet(table, nr_wf, SignalWaveforms)

SignalInvalidChannel == \E row \in SignalWaveformRows : invalid_channel(row)

SignalProcessWaveform == \E row \in SignalWaveformRows : process_waveform(row)

SignalEndOfPacket == end_of_packet

SignalEndOfEvent == end_of_event

NextSignal ==
  \/ SignalDiscardEvent
  \/ SignalBeginEvent
  \/ SignalPacketNotFound
  \/ SignalReadPacket
  \/ SignalInvalidChannel
  \/ SignalProcessWaveform
  \/ SignalEndOfPacket
  \/ SignalEndOfEvent

SpecSignal == InitSignal /\ [][NextSignal]_vars

----------------------------------------------------------------------------
(* SpecRollover: waveforms evaluated, with fee_bco on both sides of the
   rollover of the 32-bit counter *)

\* 2^32 - 3 and 2^32 - 8, 5 apart, just before the rollover; 2, just after
\* it; and 55, far from all of them
RolloverFeeBcos == {uint32(65535, 65533), uint32(65535, 65528), 2, 55}

RolloverWaveformRows ==
  {WaveformRow(0, 3, b, <<7>>) : b \in RolloverFeeBcos}
    \cup {WaveformRow(0, m_nchannels_fee, 2, <<7>>)}

RolloverTaggerTables == {<<TaggerRow(1000, 1), TaggerRow(2000, 1)>>}

InitRollover == Init /\ m_flags = {EvalWaveform}

RolloverDiscardEvent == \E type \in EvtTypes : discard_event(type, MatchEvents)

RolloverBeginEvent == \E type \in EvtTypes : begin_event(type, MatchEvents)

RolloverPacketNotFound == packet_not_found

RolloverReadPacket ==
  \E table \in RolloverTaggerTables, nr_wf \in 0..RolloverWaveforms :
    read_packet(table, nr_wf, RolloverWaveforms)

RolloverInvalidChannel == \E row \in RolloverWaveformRows : invalid_channel(row)

RolloverProcessWaveform == \E row \in RolloverWaveformRows : process_waveform(row)

RolloverEndOfPacket == end_of_packet

RolloverEndOfEvent == end_of_event

NextRollover ==
  \/ RolloverDiscardEvent
  \/ RolloverBeginEvent
  \/ RolloverPacketNotFound
  \/ RolloverReadPacket
  \/ RolloverInvalidChannel
  \/ RolloverProcessWaveform
  \/ RolloverEndOfPacket
  \/ RolloverEndOfEvent

SpecRollover == InitRollover /\ [][NextRollover]_vars

----------------------------------------------------------------------------
(* Vocabulary of the properties *)

Last(seq) == seq[Len(seq)]

AbsDiff(a, b) == IF a < b THEN b - a ELSE a - b

Tolerance == 10

\* the step is one iteration of the waveform loop that matched a row
RowMatched == Len(wf_log') = Len(wf_log) + 1

\* the row matched by that step
MatchedRow == Last(wf_log')

\* the MatchState of a FEE, zero when the FEE was never seen
MatchState(fee) ==
  IF fee \in DOMAIN m_fee_bco_matching_map
  THEN m_fee_bco_matching_map[fee] ELSE [first |-> 0, second |-> 0]

\* the MatchState of a FEE after the step
MatchStateAfter(fee) ==
  IF fee \in DOMAIN m_fee_bco_matching_map'
  THEN m_fee_bco_matching_map'[fee] ELSE [first |-> 0, second |-> 0]

\* the rows of the log that belong to one FEE in one packet
RowsOf(log, packet_id, fee) ==
  SelectSeq(log, LAMBDA e : e.packet_id = packet_id /\ e.fee_id = fee)

----------------------------------------------------------------------------
(* C2 *)

\* C2: tolerance reuse. When a waveform arrives whose fee_bco is less than
\* 10 away from the fee_bco cached for its FEE, it is given the cached
\* lvl1_bco, with its masked value, no list of any FEE is created or
\* consumed, and the MatchState of every FEE stays as it was.
C2_ToleranceReuse ==
  [][(RowMatched /\ AbsDiff(MatchedRow.fee_bco, MatchState(MatchedRow.fee_id).first) < Tolerance)
       => /\ MatchedRow.lvl1_bco = MatchState(MatchedRow.fee_id).second
          /\ bco_list_map' = bco_list_map
          /\ \A fee \in Fees : MatchStateAfter(fee) = MatchState(fee)]_vars

\* a waveform 5 away from the cached fee_bco was given the cached non-zero
\* lvl1_bco while its FEE still has a candidate in its list
C2_Witness ==
  /\ pc = "waveforms"
  /\ wf_log # <<>>
  /\ LET e == Last(wf_log)
     IN /\ e.cached.second # 0
        /\ e.fee_bco # e.cached.first
        /\ AbsDiff(e.fee_bco, e.cached.first) < Tolerance
        /\ e.lvl1_bco = e.cached.second
        /\ e.fee_id \in DOMAIN bco_list_map
        /\ bco_list_map[e.fee_id] # <<>>

----------------------------------------------------------------------------
(* C1 *)

\* the fee, in its packet, had a list before the row and the row shortened
\* it, or the row created the list and left it shorter than the main list
Popped(e) ==
  /\ e.has_list
  /\ Len(e.list) < Len(IF e.had_list THEN e.list_before ELSE e.main)

\* the lvl1 bco that was at the front of the FEE's list before the row
FrontBefore(e) == Head(IF e.had_list THEN e.list_before ELSE e.main)

\* the rows of the current packet that belong to one FEE
CurrentRowsOf(fee) == RowsOf(wf_log, m_packet_ids[ipacket], fee)

FeeBcosOf(rows) == [i \in 1..Len(rows) |-> rows[i].fee_bco]

Lvl1BcosOf(rows) == [i \in 1..Len(rows) |-> rows[i].lvl1_bco]

\* C1: end-to-end correlation. For a FEE with no prior match, the list of
\* candidates 1000, 2000, 3000 and the waveforms with fee_bco 55, 56, 57,
\* 200, 201, the waveforms get 1000, 1000, 1000, 2000, 2000 and the list of
\* the FEE is left with 3000. In general a waveform that is within
\* tolerance of the fee_bco of the last waveform of its FEE that took a
\* candidate from the list gets the candidate taken then, and takes none.
C1_EndToEndCorrelation ==
  pc = "waveforms" =>
    \A fee \in Fees :
      LET rows == CurrentRowsOf(fee)
      IN /\ ( /\ main_bco_list = <<1000, 2000, 3000>>
              /\ FeeBcosOf(rows) = <<55, 56, 57, 200, 201>>
              /\ ~rows[1].known )
            => /\ Lvl1BcosOf(rows) = <<1000, 1000, 1000, 2000, 2000>>
               /\ bco_list_map[fee] = <<3000>>
         /\ \A i, j \in 1..Len(rows) :
              ( /\ i < j
                /\ Popped(rows[i])
                /\ \A k \in (i + 1)..(j - 1) : ~Popped(rows[k])
                /\ AbsDiff(rows[j].fee_bco, rows[i].fee_bco) < Tolerance )
              => /\ rows[i].lvl1_bco = FrontBefore(rows[i])
                 /\ rows[j].lvl1_bco = rows[i].lvl1_bco
                 /\ ~Popped(rows[j])

\* the five waveforms of the scenario have been matched
C1_Witness ==
  /\ pc = "waveforms"
  /\ main_bco_list = <<1000, 2000, 3000>>
  /\ FeeBcosOf(CurrentRowsOf(1)) = <<55, 56, 57, 200, 201>>
  /\ ~CurrentRowsOf(1)[1].known
  /\ Lvl1BcosOf(CurrentRowsOf(1)) = <<1000, 1000, 1000, 2000, 2000>>
  /\ bco_list_map[1] = <<3000>>

----------------------------------------------------------------------------
(* C3 *)

\* C3: a FEE without a successful pop never takes the tolerance-reuse
\* path. Stated for the first waveform of a FEE the module has never seen:
\* whatever its fee_bco, when the packet has LVL1 tags the waveform takes
\* the first of them, which becomes the FEE's MatchState.
C3_NoCacheTakesFront ==
  [][( /\ RowMatched
       /\ MatchedRow.fee_id \notin DOMAIN m_fee_bco_matching_map
       /\ main_bco_list # <<>> )
       => /\ MatchedRow.lvl1_bco = Head(main_bco_list)
          /\ MatchStateAfter(MatchedRow.fee_id) =
               [first |-> MatchedRow.fee_bco, second |-> Head(main_bco_list)]
          /\ MatchedRow.fee_id \in DOMAIN bco_list_map'
          /\ bco_list_map'[MatchedRow.fee_id] = Tail(main_bco_list)]_vars

----------------------------------------------------------------------------
(* C4 *)

\* the waveform is not within tolerance of the fee_bco cached for its FEE
OutsideTolerance(e) == AbsDiff(e.fee_bco, e.cached.first) >= Tolerance

Smaller(a, b) == IF a < b THEN a ELSE b

\* C4: queue consumption. In a packet whose main list has L entries, after N
\* waveforms of a FEE outside tolerance the list of the FEE is the main list
\* without its first min(N, L) entries (and the FEE has no list while N is
\* 0), and the k-th of these waveforms, k <= L, got the k-th entry of the
\* main list.
C4_QueueConsumption ==
  pc = "waveforms" =>
    \A fee \in Fees :
      LET outside == SelectSeq(CurrentRowsOf(fee), OutsideTolerance)
          N == Len(outside)
          L == Len(main_bco_list)
      IN /\ (fee \in DOMAIN bco_list_map) <=> (N > 0)
         /\ N > 0 =>
              /\ bco_list_map[fee] = SubSeq(main_bco_list, Smaller(N, L) + 1, L)
              /\ Len(bco_list_map[fee]) = L - Smaller(N, L)
         /\ \A k \in 1..Smaller(N, L) : outside[k].lvl1_bco = main_bco_list[k]
         /\ \A k \in (L + 1)..N : outside[k].lvl1_bco = 0

\* three waveforms of a FEE outside tolerance in a packet tagged with 2000
\* then 1000: they got 2000, 1000 and nothing
C4_Witness ==
  /\ pc = "waveforms"
  /\ main_bco_list = <<2000, 1000>>
  /\ \E fee \in Fees :
       LET outside == SelectSeq(CurrentRowsOf(fee), OutsideTolerance)
       IN /\ Lvl1BcosOf(outside) = <<2000, 1000, 0>>
          /\ bco_list_map[fee] = <<>>

----------------------------------------------------------------------------
(* C5 *)

\* the list the FEE of the row is about to use is empty
ListExhausted(fee) ==
  IF fee \in DOMAIN bco_list_map THEN bco_list_map[fee] = <<>>
  ELSE main_bco_list = <<>>

\* C5: exhaustion. A waveform outside tolerance of the fee_bco cached for
\* its FEE, when the list of the FEE is empty, keeps lvl1_bco and
\* lvl1_bco_masked at 0; the list stays empty, the lists of the other FEEs
\* and the MatchState of every FEE are left as they were.
C5_Exhaustion ==
  [][( /\ RowMatched
       /\ AbsDiff(MatchedRow.fee_bco, MatchState(MatchedRow.fee_id).first) >= Tolerance
       /\ ListExhausted(MatchedRow.fee_id) )
       => /\ MatchedRow.lvl1_bco = 0
          /\ MatchedRow.lvl1_bco_masked = 0
          /\ MatchedRow.fee_id \in DOMAIN bco_list_map'
          /\ bco_list_map'[MatchedRow.fee_id] = <<>>
          /\ \A fee \in DOMAIN bco_list_map : bco_list_map'[fee] = bco_list_map[fee]
          /\ \A fee \in Fees : MatchStateAfter(fee) = MatchState(fee)]_vars

\* an orphan waveform of a FEE whose MatchState still holds the last match
C5_Witness ==
  /\ pc = "waveforms"
  /\ wf_log # <<>>
  /\ LET e == Last(wf_log)
     IN /\ OutsideTolerance(e)
        /\ e.had_list /\ e.list_before = <<>>
        /\ e.lvl1_bco = 0
        /\ e.cached.second # 0
        /\ MatchState(e.fee_id) = e.cached
        /\ bco_list_map[e.fee_id] = <<>>

----------------------------------------------------------------------------
(* C6 *)

\* no row of the FEE has been matched yet in the current event
FirstInEvent(fee) == \A k \in DOMAIN wf_log : wf_log[k].fee_id # fee

\* C6: MatchState persists across events. Only the matching of a waveform
\* changes m_fee_bco_matching_map, so a FEE enters an event with the
\* MatchState (F0, L0) the previous event left; the first waveform of the
\* FEE in the event, when within tolerance of F0, gets L0 and neither
\* creates nor consumes a list, whatever the LVL1 tags of the packet.
C6_MatchStatePersists ==
  [][ /\ ~RowMatched => m_fee_bco_matching_map' = m_fee_bco_matching_map
      /\ ( /\ RowMatched
           /\ FirstInEvent(MatchedRow.fee_id)
           /\ AbsDiff(MatchedRow.fee_bco, MatchState(MatchedRow.fee_id).first) < Tolerance )
         => /\ MatchedRow.lvl1_bco = MatchState(MatchedRow.fee_id).second
            /\ bco_list_map' = bco_list_map
            /\ MatchStateAfter(MatchedRow.fee_id) = MatchState(MatchedRow.fee_id) ]_vars

\* second event of the run, after a first one that was processed: the first
\* waveform matched has got the lvl1_bco its FEE cached in the first event,
\* which is none of the LVL1 tags of the packet, and its FEE has no list
C6_Witness ==
  /\ pc = "waveforms"
  /\ events_seen = 2
  /\ tree_entries = 1
  /\ Len(wf_log) = 1
  /\ main_bco_list # <<>>
  /\ LET e == wf_log[1]
     IN /\ e.cached.second # 0
        /\ e.lvl1_bco = e.cached.second
        /\ \A k \in DOMAIN main_bco_list : main_bco_list[k] # e.lvl1_bco
        /\ e.fee_id \notin DOMAIN bco_list_map

----------------------------------------------------------------------------
(* C7 *)

\* the rows of a log after which their FEE has a list
RowsWithList(log, fee) == SelectSeq(log, LAMBDA e : e.fee_id = fee /\ e.has_list)

\* over these rows: the list never grows, only the first row creates it,
\* and no more entries are taken than the list had when it was created
SeededOnce(rows) ==
  /\ \A i, j \in 1..Len(rows) : i < j => Len(rows[j].list) <= Len(rows[i].list)
  /\ \A j \in 2..Len(rows) : rows[j].had_list
  /\ rows # <<>> =>
       Cardinality({i \in 1..Len(rows) : Popped(rows[i])}) <= Len(rows[1].main)

\* C7, as claimed: within one event the list of a FEE is seeded once, never
\* grows, and gives no more lvl1 bcos than the list it was seeded from had,
\* also over several packets with waveforms of the FEE.
C7_SeededOncePerEvent ==
  \A fee \in Fees : SeededOnce(RowsWithList(wf_log, fee))

\* C7, amended: the same within one packet.
C7_SeededOncePerPacket ==
  \A fee \in Fees : \A p \in DOMAIN m_packet_ids :
    SeededOnce(RowsWithList(
      SelectSeq(wf_log, LAMBDA e : e.packet_id = m_packet_ids[p]), fee))

\* an event with two packets, in each of which the same FEE was given a
\* list and took an entry from it
C7_Witness ==
  \E fee \in Fees : \A p \in DOMAIN m_packet_ids :
    \E k \in DOMAIN wf_log :
      /\ wf_log[k].fee_id = fee
      /\ wf_log[k].packet_id = m_packet_ids[p]
      /\ ~wf_log[k].had_list
      /\ Popped(wf_log[k])

----------------------------------------------------------------------------
(* C8 *)

\* the rows matched so far in the current packet
CurrentRows == SelectSeq(wf_log, LAMBDA e : e.packet_id = m_packet_ids[ipacket])

\* the waveform row a log entry was made from
RowOf(e) == WaveformRow(e.fee_id, e.channel, e.fee_bco, e.adc)

\* the orders of n rows, each the sequence of the positions the rows come
\* from, that keep the rows of every FEE in their relative order
FeeOrders(rows) ==
  {q \in [1..Len(rows) -> 1..Len(rows)] :
     /\ \A k, l \in 1..Len(rows) : k # l => q[k] # q[l]
     /\ \A k, l \in 1..Len(rows) :
          (k < l /\ rows[q[k]].fee_id = rows[q[l]].fee_id) => q[k] < q[l]}

\* the waveform loop of the current packet run again over its rows in order q
Reordered(q) ==
  waveform_loop(packet_entry, m_flags, m_packet_ids[ipacket], main_bco_list,
                [k \in 1..Len(q) |-> RowOf(CurrentRows[q[k]])], <<>>)

\* the number of times each element occurs in a sequence
BagOf(seq) ==
  [x \in {seq[k] : k \in DOMAIN seq} |-> Cardinality({k \in DOMAIN seq : seq[k] = x})]

\* the results that do not depend on the order: the lvl1 bco of every row,
\* the MatchState and the list of every FEE, the histogram
SameMatching(q, other) ==
  /\ \A k \in 1..Len(q) : other.assigned[k] = CurrentRows[q[k]].lvl1_bco
  /\ other.matching_map = m_fee_bco_matching_map
  /\ other.bco_list_map = bco_list_map
  /\ other.bco_map = m_bco_map

\* C8, as claimed: whatever the interleaving of the rows of different FEEs,
\* the lvl1 bco of every waveform, the MatchState of every FEE, the
\* histogram and the samples and waveforms in the order in which they will
\* be copied to the container are the same.
C8_OrderIndependent ==
  pc = "waveforms" =>
    \A q \in FeeOrders(CurrentRows) :
      LET other == Reordered(q)
      IN /\ SameMatching(q, other)
         /\ other.sample_map = sample_map
         /\ other.waveform_map = waveform_map

KeysOf(map) == [k \in DOMAIN map |-> map[k].key]

\* C8, amended: the lvl1 bco of every waveform, the MatchState of every FEE
\* and the histogram are the same, and the samples and the waveforms are the
\* same records, each as many times, with the same sequence of lvl1_bco;
\* only the order among records of equal lvl1_bco may differ.
C8_OrderIndependentRecords ==
  pc = "waveforms" =>
    \A q \in FeeOrders(CurrentRows) :
      LET other == Reordered(q)
      IN /\ SameMatching(q, other)
         /\ BagOf(other.sample_map) = BagOf(sample_map)
         /\ BagOf(other.waveform_map) = BagOf(waveform_map)
         /\ KeysOf(other.sample_map) = KeysOf(sample_map)
         /\ KeysOf(other.waveform_map) = KeysOf(waveform_map)

\* rows of two FEEs for which another interleaving gives the samples in
\* another order
C8_Witness ==
  /\ pc = "waveforms"
  /\ \E q \in FeeOrders(CurrentRows) :
       /\ \E k \in 1..Len(q) : q[k] # k
       /\ Reordered(q).sample_map # sample_map
       /\ Reordered(q).waveform_map # waveform_map

----------------------------------------------------------------------------
(* C9 and C10: what the container must hold, from the log of the event *)

EventOver == pc = "idle" /\ return_code = EVENT_OK

\* the positions of the scanned entries of a waveform that hold an ADC value
ValidEntries(adc) ==
  {i \in 1..Smaller(Len(adc), 1024) : adc[i] # m_adc_invalid}

\* the Sample of entry i of a matched row
ExpectedSample(e, i) ==
  [packet_id |-> e.packet_id, fee_id |-> e.fee_id, channel |-> e.channel,
   fee_bco |-> e.fee_bco, lvl1_bco |-> e.lvl1_bco,
   lvl1_bco_masked |-> e.lvl1_bco_masked, sample |-> i - 1, adc |-> e.adc[i],
   pedestal |-> e.pedestal, rms |-> e.rms]

\* whether a peak of the row e, of value adc_max at index sample_max, is a
\* signal: above the thresholds of the configuration and of the calibration
ExpectedSignal(e, adc_max, sample_max) ==
  /\ e.rms > 0
  /\ adc_max >= m_min_adc
  /\ m_sample_min <= sample_max
  /\ sample_max < m_sample_max
  /\ adc_max > e.pedestal + m_n_sigma * e.rms

\* the Waveform of a matched row: made of the first entry that holds the
\* largest ADC value, all zero when no entry holds a value above 0
ExpectedWaveform(e) ==
  LET valid == {i \in ValidEntries(e.adc) : e.adc[i] > 0}
  IN IF valid = {}
     THEN [packet_id |-> 0, fee_id |-> 0, channel |-> 0, fee_bco |-> 0,
           lvl1_bco |-> 0, sample_max |-> 0, adc_max |-> 0,
           pedestal |-> 0, rms |-> 0, is_signal |-> ExpectedSignal(e, 0, 0)]
     ELSE LET top == CHOOSE i \in valid :
                       /\ \A j \in valid : e.adc[j] <= e.adc[i]
                       /\ \A j \in valid : e.adc[j] = e.adc[i] => i <= j
          IN [packet_id |-> e.packet_id, fee_id |-> e.fee_id,
              channel |-> e.channel, fee_bco |-> e.fee_bco,
              lvl1_bco |-> e.lvl1_bco, sample_max |-> top - 1,
              adc_max |-> e.adc[top], pedestal |-> e.pedestal, rms |-> e.rms,
              is_signal |-> ExpectedSignal(e, e.adc[top], top - 1)]

\* the row found no lvl1 bco: outside tolerance, and the list empty
Orphan(e) ==
  /\ OutsideTolerance(e)
  /\ IF e.had_list THEN e.list_before = <<>> ELSE e.main = <<>>

\* the scanned entries with an ADC value of all the rows of the event
EventEntries ==
  UNION {{<<k, i>> : i \in ValidEntries(wf_log[k].adc)} : k \in DOMAIN wf_log}

Occurrences(seq, x) == Cardinality({k \in DOMAIN seq : seq[k] = x})

\* C9: an orphan is never dropped. When the event is over, for every orphan
\* row of the event: with EvalSample, each of its scanned entries that holds
\* an ADC value is in the samples, with lvl1_bco 0, as many times as the
\* rows of the event produced that very Sample; with EvalWaveform, its
\* Waveform is in the waveforms, with lvl1_bco 0, as many times as the rows
\* of the event produced that very Waveform.
C9_OrphanKept ==
  EventOver =>
    \A k \in DOMAIN wf_log :
      Orphan(wf_log[k]) =>
        /\ EvalSample \in m_flags =>
             \A i \in ValidEntries(wf_log[k].adc) :
               LET x == ExpectedSample(wf_log[k], i)
               IN /\ x.lvl1_bco = 0
                  /\ Occurrences(m_container.samples, x) =
                       Cardinality({c \in EventEntries :
                                      ExpectedSample(wf_log[c[1]], c[2]) = x})
        /\ EvalWaveform \in m_flags =>
             LET w == ExpectedWaveform(wf_log[k])
             IN /\ w.lvl1_bco = 0
                /\ Occurrences(m_container.waveforms, w) =
                     Cardinality({c \in DOMAIN wf_log : ExpectedWaveform(wf_log[c]) = w})

\* an event with samples and waveforms evaluated is over, in which an orphan
\* row with valid entries came after a row that was matched
C9_Witness ==
  /\ EventOver
  /\ {EvalSample, EvalWaveform} \subseteq m_flags
  /\ \E k, l \in DOMAIN wf_log :
       /\ l < k
       /\ wf_log[l].lvl1_bco # 0
       /\ Orphan(wf_log[k])
       /\ ValidEntries(wf_log[k].adc) # {}

----------------------------------------------------------------------------
(* C10 *)

\* the Samples of one row, in the order of the scan
SamplesFrom(e) ==
  LET valid == ValidEntries(e.adc)
  IN [k \in 1..Cardinality(valid) |->
        ExpectedSample(e, CHOOSE i \in valid :
                            Cardinality({j \in valid : j < i}) = k - 1)]

\* the Samples and the Waveforms of the event in the order of production
RECURSIVE ProducedSamples(_)
ProducedSamples(log) ==
  IF log = <<>> THEN <<>>
  ELSE SamplesFrom(Head(log)) \o ProducedSamples(Tail(log))

ProducedWaveforms(log) == [k \in DOMAIN log |-> ExpectedWaveform(log[k])]

SortedByLvl1(records) ==
  \A i, j \in DOMAIN records : i < j => records[i].lvl1_bco <= records[j].lvl1_bco

\* records with the same lvl1_bco are in records in the order they have in
\* produced, and records holds nothing else
StableOrderOf(records, produced) ==
  /\ Len(records) = Len(produced)
  /\ \A bco \in {produced[k].lvl1_bco : k \in DOMAIN produced}
                  \cup {records[k].lvl1_bco : k \in DOMAIN records} :
       SelectSeq(records, LAMBDA r : r.lvl1_bco = bco)
         = SelectSeq(produced, LAMBDA r : r.lvl1_bco = bco)

\* C10: when an event is over, the samples (with EvalSample) and the
\* waveforms (with EvalWaveform) of the container are those produced over all
\* packets of the event, by ascending lvl1_bco, and in the order of
\* production among those of equal lvl1_bco.
C10_SortedStable ==
  EventOver =>
    /\ SortedByLvl1(m_container.samples)
    /\ SortedByLvl1(m_container.waveforms)
    /\ StableOrderOf(m_container.samples,
                     IF EvalSample \in m_flags THEN ProducedSamples(wf_log) ELSE <<>>)
    /\ StableOrderOf(m_container.waveforms,
                     IF EvalWaveform \in m_flags THEN ProducedWaveforms(wf_log) ELSE <<>>)

\* an event is over whose rows, over its two packets, were matched to a
\* larger lvl1_bco first and to a smaller one later, two of them to the same
C10_Witness ==
  /\ EventOver
  /\ {EvalSample, EvalWaveform} \subseteq m_flags
  /\ \E k, l \in DOMAIN wf_log :
       /\ k < l
       /\ wf_log[k].lvl1_bco > wf_log[l].lvl1_bco
       /\ wf_log[l].lvl1_bco > 0
       /\ wf_log[k].packet_id # wf_log[l].packet_id
  /\ \E k, l \in DOMAIN wf_log :
       /\ k < l
       /\ wf_log[k].lvl1_bco = wf_log[l].lvl1_bco
       /\ ValidEntries(wf_log[k].adc) # {}
       /\ ValidEntries(wf_log[l].adc) # {}
  /\ Len(m_container.waveforms) = Len(wf_log)

----------------------------------------------------------------------------
(* C11 *)

\* a sequence without its k-th element
Without(seq, k) == SubSeq(seq, 1, k - 1) \o SubSeq(seq, k + 1, Len(seq))

\* the position of the first scanned entry that holds the largest ADC value
PeakEntry(adc) ==
  CHOOSE i \in ValidEntries(adc) :
    /\ \A j \in ValidEntries(adc) : adc[j] <= adc[i]
    /\ \A j \in ValidEntries(adc) : adc[j] = adc[i] => i <= j

\* the Waveform stored has the peak of the row e and the identity of e
PeakOf(e, w) ==
  /\ w.adc_max = e.adc[PeakEntry(e.adc)]
  /\ w.sample_max = PeakEntry(e.adc) - 1
  /\ w.fee_id = e.fee_id
  /\ w.channel = e.channel
  /\ w.fee_bco = e.fee_bco
  /\ w.lvl1_bco = e.lvl1_bco

\* C11: peak extraction. Every step that matches a row with at least one
\* scanned entry holding an ADC value stores one Waveform whose adc_max is
\* the largest such value, whose sample_max is the smallest index holding
\* it, and which carries the row's fee_id, channel, fee_bco and the lvl1_bco
\* given to the row.
C11_PeakExtraction ==
  [][(RowMatched /\ EvalWaveform \in m_flags /\ ValidEntries(MatchedRow.adc) # {})
       => \E k \in DOMAIN waveform_map' :
            /\ Without(waveform_map', k) = waveform_map
            /\ PeakOf(MatchedRow, waveform_map'[k].value)]_vars

\* the same for the rows with a scanned entry above 0, which are the rows
\* whose entries replace the initial sample_max
C11_PeakOfRowsAboveZero ==
  [][(RowMatched /\ EvalWaveform \in m_flags
        /\ \E i \in ValidEntries(MatchedRow.adc) : MatchedRow.adc[i] > 0)
       => \E k \in DOMAIN waveform_map' :
            /\ Without(waveform_map', k) = waveform_map
            /\ PeakOf(MatchedRow, waveform_map'[k].value)]_vars

\* the waveform map holds the peak of the row 5, 10, 7, 10: index 1, ADC 10
C11_PeakStored ==
  \E k \in DOMAIN waveform_map :
    /\ waveform_map[k].value.adc_max = 10
    /\ waveform_map[k].value.sample_max = 1
    /\ waveform_map[k].value.fee_bco = 55

----------------------------------------------------------------------------
(* C12 *)

\* the thresholds of the example: 3 sigma, no minimal ADC, window [0, 1024)
ExampleThresholds ==
  /\ m_n_sigma = 3
  /\ m_min_adc = 0
  /\ m_sample_min = 0
  /\ m_sample_max = 1024

\* C12: signal classification. The Waveform stored by a step that matches a
\* row has is_signal true exactly when the rms of the row's channel is
\* above 0, adc_max is at least m_min_adc, sample_max is in
\* [m_sample_min, m_sample_max) and adc_max is strictly above pedestal +
\* m_n_sigma * rms; with pedestal 10, rms 2, 3 sigma, minimal ADC 0 and
\* window [0, 1024), adc_max 15 and 16 give false and adc_max 17 gives true.
C12_SignalClassification ==
  [][(RowMatched /\ EvalWaveform \in m_flags)
       => \E k \in DOMAIN waveform_map' :
            LET w == waveform_map'[k].value
            IN /\ Without(waveform_map', k) = waveform_map
               /\ w.is_signal =
                    ExpectedSignal(MatchedRow, w.adc_max, w.sample_max)
               /\ (ExampleThresholds /\ MatchedRow.pedestal = 10
                      /\ MatchedRow.rms = 2)
                    => /\ w.adc_max \in {15, 16} => ~w.is_signal
                       /\ w.adc_max = 17 => w.is_signal]_vars

\* under the thresholds of the example the waveform map holds a peak of 17
\* that is a signal and a peak of 16 that is not, both of pedestal 10, rms 2
C12_Witness ==
  /\ ExampleThresholds
  /\ \E k, l \in DOMAIN waveform_map :
       LET v == waveform_map[k].value
           w == waveform_map[l].value
       IN /\ v.adc_max = 17 /\ v.pedestal = 10 /\ v.rms = 2 /\ v.is_signal
          /\ w.adc_max = 16 /\ w.pedestal = 10 /\ w.rms = 2 /\ ~w.is_signal

----------------------------------------------------------------------------
(* C13 *)

\* the rows k and l of the event are orphans of the same FEE and fee_bco
SameOrphan(k, l) ==
  /\ Orphan(wf_log[k])
  /\ Orphan(wf_log[l])
  /\ wf_log[k].fee_id = wf_log[l].fee_id
  /\ wf_log[k].fee_bco = wf_log[l].fee_bco

----------------------------------------------------------------------------
(* C14 *)

\* the three sequences of a container are empty
Emptied(container) ==
  /\ Len(container.samples) = 0
  /\ Len(container.waveforms) = 0
  /\ Len(container.taggers) = 0

Prefix(a, b) == Len(a) <= Len(b) /\ SubSeq(b, 1, Len(a)) = a

\* the step enters the packet loop of an event
EventBegins == pc = "idle" /\ pc' = "packets"

\* the step leaves the packet loop of an event and fills the tree
EventEnds == pc = "packets" /\ pc' = "idle"

\* the step reads the tagger table of a packet
PacketRead == pc = "packets" /\ pc' = "waveforms"

\* the tagger records of the table of the packet being read
TaggersOf(table) ==
  [t \in DOMAIN table |->
     [packet_id |-> m_packet_ids[ipacket], is_lvl1 |-> table[t].is_lvl1,
      bco |-> table[t].bco]]

\* C14: Reset. Reset leaves the three sequences of any container reached
\* empty, and a second Reset changes nothing; the step that begins a
\* processed event leaves the container reset, and every other step leaves
\* what the container holds in place: only the reading of a packet appends
\* taggers, those of its own table, and only the end of the event appends
\* samples and waveforms, those of the rows of the event; so the container
\* filled into the tree holds the records of its event and no other.
C14_ResetOncePerEvent ==
  [][/\ Emptied(Reset(m_container))
     /\ Reset(Reset(m_container)) = Reset(m_container)
     /\ EventBegins => m_container' = Reset(m_container)
     /\ ~EventBegins =>
          /\ Prefix(m_container.samples, m_container'.samples)
          /\ Prefix(m_container.waveforms, m_container'.waveforms)
          /\ Prefix(m_container.taggers, m_container'.taggers)
     /\ (~EventBegins /\ ~PacketRead) =>
          m_container'.taggers = m_container.taggers
     /\ PacketRead =>
          m_container'.taggers =
            m_container.taggers \o
              (IF EvalTagger \in m_flags THEN TaggersOf(tagger_table') ELSE <<>>)
     /\ (~EventBegins /\ ~EventEnds) =>
          /\ m_container'.samples = m_container.samples
          /\ m_container'.waveforms = m_container.waveforms
     /\ EventEnds =>
          /\ BagOf(m_container'.samples) =
               BagOf(IF EvalSample \in m_flags
                     THEN ProducedSamples(wf_log) ELSE <<>>)
          /\ BagOf(m_container'.waveforms) =
               BagOf(IF EvalWaveform \in m_flags
                     THEN ProducedWaveforms(wf_log) ELSE <<>>)]_vars

\* a second event is over, without any row, after an event whose rows gave
\* samples: the container filled into the tree holds no sample
C14_Witness ==
  /\ EventOver
  /\ tree_entries = 2
  /\ EvalSample \in m_flags
  /\ n_matched > 0
  /\ wf_log = <<>>
  /\ m_container.samples = <<>>

----------------------------------------------------------------------------
(* C15 *)

\* the number of waveforms counted under a lvl1 bco, 0 when there is none
CountAt(bco_map, lvl1_bco) ==
  IF lvl1_bco \in DOMAIN bco_map THEN bco_map[lvl1_bco] ELSE 0

RECURSIVE SumOver(_, _)
SumOver(bco_map, keys) ==
  IF keys = {} THEN 0
  ELSE LET key == CHOOSE k \in keys : TRUE
       IN bco_map[key] + SumOver(bco_map, keys \ {key})

\* the sum of all the counts
TotalCount(bco_map) == SumOver(bco_map, DOMAIN bco_map)

\* C15: the BCO histogram. A step that matches a row (a row that passed
\* the channel check) adds exactly one to the count at the lvl1 bco given
\* to the row, 0 for an orphan, whatever the entries of the row, and leaves
\* every other count as it was; no other step, be it the skipping of a row,
\* the start or the end of an event, changes a count; at any time the sum of
\* the counts is the number of rows matched so far in the run.
C15_HistogramCounts ==
  [][/\ RowMatched =>
          \A b \in DOMAIN m_bco_map \cup DOMAIN m_bco_map' :
            CountAt(m_bco_map', b) =
              CountAt(m_bco_map, b) + (IF b = MatchedRow.lvl1_bco THEN 1 ELSE 0)
     /\ RowMatched => MatchedRow.lvl1_bco \in DOMAIN m_bco_map'
     /\ ~RowMatched => m_bco_map' = m_bco_map
     /\ TotalCount(m_bco_map) = n_matched
     /\ TotalCount(m_bco_map') = n_matched']_vars

\* the second event of the run has matched one row, and the count at the
\* lvl1 bco of that row is 2: a count that spans two events
C15_Witness ==
  /\ events_seen = 2
  /\ tree_entries = 1
  /\ Len(wf_log) = 1
  /\ n_matched = 2
  /\ CountAt(m_bco_map, wf_log[1].lvl1_bco) = 2

----------------------------------------------------------------------------
(* C16 *)

\* the bcos of the rows of a tagger table that are flagged LVL1, in the order
\* of the table
RECURSIVE Lvl1Bcos(_)
Lvl1Bcos(table) ==
  IF table = <<>> THEN <<>>
  ELSE (IF Head(table).is_lvl1 # 0 THEN <<Head(table).bco>> ELSE <<>>)
         \o Lvl1Bcos(Tail(table))

\* the step is one iteration of the waveform loop
RowVisited == pc = "waveforms" /\ pc' = "waveforms"

----------------------------------------------------------------------------
(* C17 *)

\* C17: sample emission. When an event is over and EvalSample is set, the
\* samples of the container are, with their multiplicity, the Samples of
\* the entries that hold an ADC value among the first min(SAMPLES, 1024)
\* entries of every row matched in the event, each with the index and the
\* ADC of its entry and the fee_id, fee_bco and lvl1_bco of its row; no
\* Sample has the ADC value that means no data, nor an index of 1024 or
\* more.
C17_SampleEmission ==
  (EventOver /\ EvalSample \in m_flags) =>
    /\ BagOf(m_container.samples) = BagOf(ProducedSamples(wf_log))
    /\ Len(m_container.samples) = Len(ProducedSamples(wf_log))
    /\ \A k \in DOMAIN m_container.samples :
         /\ m_container.samples[k].adc # m_adc_invalid
         /\ m_container.samples[k].sample < 1024

\* an event is over that had a row of more than 1024 entries, whose entry
\* at index 1023 is in the samples, and a row with an entry without data
\* before an entry with data
C17_Witness ==
  /\ EventOver
  /\ EvalSample \in m_flags
  /\ \E k, l \in DOMAIN wf_log :
       /\ Len(wf_log[k].adc) > 1024
       /\ wf_log[k].adc[1025] # m_adc_invalid
       /\ Len(wf_log[l].adc) = 2
       /\ wf_log[l].adc[1] = m_adc_invalid
       /\ wf_log[l].adc[2] # m_adc_invalid
  /\ \E k \in DOMAIN m_container.samples : m_container.samples[k].sample = 1023
  /\ \E k \in DOMAIN m_container.samples : m_container.samples[k].sample = 1

----------------------------------------------------------------------------
(* C18 *)

\* 0, or the bco of a LVL1 tagger row read so far in the run
TagOrNone(lvl1_bco) == lvl1_bco = 0 \/ lvl1_bco \in lvl1_tags

\* C18: no invented timestamps. In every reachable state the lvl1 bco of
\* the running pair of every FEE, of every Sample and Waveform of the
\* container and of the two multimaps, and every bco waiting in a list, is
\* 0 or the bco of a tagger row flagged LVL1 that was read in the packet
\* being read or in an earlier packet of the run.
C18_NoInventedTimestamps ==
  /\ \A fee \in DOMAIN m_fee_bco_matching_map :
       TagOrNone(m_fee_bco_matching_map[fee].second)
  /\ \A k \in DOMAIN m_container.samples :
       TagOrNone(m_container.samples[k].lvl1_bco)
  /\ \A k \in DOMAIN m_container.waveforms :
       TagOrNone(m_container.waveforms[k].lvl1_bco)
  /\ \A k \in DOMAIN sample_map :
       /\ TagOrNone(sample_map[k].value.lvl1_bco)
       /\ sample_map[k].key = sample_map[k].value.lvl1_bco
  /\ \A k \in DOMAIN waveform_map :
       /\ TagOrNone(waveform_map[k].value.lvl1_bco)
       /\ waveform_map[k].key = waveform_map[k].value.lvl1_bco
  /\ \A k \in DOMAIN main_bco_list : main_bco_list[k] \in lvl1_tags
  /\ \A fee \in DOMAIN bco_list_map :
       \A k \in DOMAIN bco_list_map[fee] : bco_list_map[fee][k] \in lvl1_tags
  /\ \A b \in DOMAIN m_bco_map : TagOrNone(b)

\* a row of the second event has got a lvl1 bco that is not in the tagger
\* table of its packet: the one its FEE got in the first event
C18_Witness ==
  /\ events_seen = 2
  /\ pc = "waveforms"
  /\ wf_log # <<>>
  /\ Last(wf_log).lvl1_bco # 0
  /\ \A t \in DOMAIN tagger_table : tagger_table[t].bco # Last(wf_log).lvl1_bco
  /\ \E k \in DOMAIN sample_map :
       sample_map[k].value.lvl1_bco = Last(wf_log).lvl1_bco

----------------------------------------------------------------------------
(* C19 *)

\* the step is an iteration of the waveform loop that skips its row
RowSkipped == RowVisited /\ ~RowMatched

\* the maps are what the waveform loop makes of the matched rows of the
\* packet alone, from the maps at the entry of the loop
AsWithoutSkippedRows ==
  LET only == waveform_loop(packet_entry, m_flags, m_packet_ids[ipacket],
                            main_bco_list,
                            [k \in DOMAIN CurrentRows |-> RowOf(CurrentRows[k])],
                            <<>>)
  IN /\ m_fee_bco_matching_map = only.matching_map
     /\ bco_list_map = only.bco_list_map
     /\ m_bco_map = only.bco_map
     /\ sample_map = only.sample_map
     /\ waveform_map = only.waveform_map

\* C19: invalid channel. The iteration of the waveform loop that meets a
\* row whose channel is out of range changes nothing but the position in
\* the loop: the running pair of every FEE, every list, the histogram, the
\* two multimaps and the container are as before, and the loop goes on with
\* the next row; at every point of the loop the maps are those the loop
\* would have made of the rows with a valid channel alone.
C19_InvalidChannelSkipped ==
  [][/\ RowSkipped =>
          /\ UNCHANGED <<m_fee_bco_matching_map, bco_list_map, main_bco_list,
                         m_bco_map, sample_map, waveform_map, m_container,
                         orphans, tree_entries, n_waveform>>
          /\ iwf' = iwf + 1
          /\ iwf' <= n_waveform
     /\ pc = "waveforms" => AsWithoutSkippedRows]_vars

\* in the packet being read a row was skipped and two were matched
C19_Witness ==
  /\ pc = "waveforms"
  /\ n_waveform = 3
  /\ iwf = 3
  /\ Len(CurrentRows) = 2
  /\ m_bco_map # EmptyMap

----------------------------------------------------------------------------
(* C20 *)

\* the Waveform is the copy of a zero-initialized Sample
ZeroPeak(w) ==
  /\ w.packet_id = 0
  /\ w.fee_id = 0
  /\ w.channel = 0
  /\ w.fee_bco = 0
  /\ w.lvl1_bco = 0
  /\ w.sample_max = 0
  /\ w.adc_max = 0

\* C20: the all-sentinel waveform. A step that matches a row stores the
\* copy of a zero-initialized Sample (adc_max 0, sample_max 0, fee_id,
\* fee_bco and lvl1_bco 0, whatever lvl1 bco the row was given) when every
\* scanned entry of the row is the value that means no data, and only then.
C20_ZeroPeakIffAllSentinel ==
  [][(RowMatched /\ EvalWaveform \in m_flags)
       => \E k \in DOMAIN waveform_map' :
            /\ Without(waveform_map', k) = waveform_map
            /\ ZeroPeak(waveform_map'[k].value)
                 <=> ValidEntries(MatchedRow.adc) = {}]_vars

\* the half of it that goes from the row to the Waveform
C20_AllSentinelGivesZeroPeak ==
  [][(RowMatched /\ EvalWaveform \in m_flags
        /\ ValidEntries(MatchedRow.adc) = {})
       => \E k \in DOMAIN waveform_map' :
            /\ Without(waveform_map', k) = waveform_map
            /\ waveform_map'[k].key = 0
            /\ ZeroPeak(waveform_map'[k].value)]_vars

\* a row without any valid entry was given a lvl1 bco, and the waveform map
\* holds a zero-initialized peak under key 0
C20_ZeroPeakOfMatchedRow ==
  /\ \E k \in DOMAIN wf_log :
       /\ ValidEntries(wf_log[k].adc) = {}
       /\ wf_log[k].lvl1_bco # 0
  /\ \E k \in DOMAIN waveform_map :
       waveform_map[k].key = 0 /\ ZeroPeak(waveform_map[k].value)

----------------------------------------------------------------------------
(* C21 *)

\* the value of a fee_bco, a number from 0 to 2^32 - 1, written in base
\* 65536: its two digits
High(a) == IF a >= 0 THEN a \div 65536 ELSE 65535 - ((-1 - a) \div 65536)

Low(a) == IF a >= 0 THEN a % 65536 ELSE 65535 - ((-1 - a) % 65536)

\* max(a, b) - min(a, b), taken on the values, is below n (n below 65536)
PlainDistanceBelow(a, b, n) ==
  IF High(a) = High(b) THEN AbsDiff(Low(a), Low(b)) < n
  ELSE IF High(a) = High(b) + 1 THEN 65536 + Low(a) - Low(b) < n
  ELSE IF High(b) = High(a) + 1 THEN 65536 + Low(b) - Low(a) < n
  ELSE FALSE

\* the list the FEE of the row e had, or was given, when e was matched
ListSeenBy(e) == IF e.had_list THEN e.list_before ELSE e.main

\* the given fee_bco is 2, just after the rollover, and the other 2^32 - 3
AcrossRollover(a, b) ==
  /\ High(a) = 0 /\ Low(a) = 2
  /\ High(b) = 65535 /\ Low(b) = 65533

\* C21: the tolerance test. get_bco_diff gives the same for its arguments
\* in either order, and a row is given the lvl1 bco of the running pair of
\* its FEE exactly when max - min of its fee_bco and of the fee_bco of the
\* pair, as plain numbers, is below 10; otherwise the row takes the front
\* of the list of its FEE, or is an orphan when that list is empty. A
\* fee_bco of 2 against a pair at 2^32 - 3, and a fee_bco of 2^32 - 3 against
\* a pair at 2, are outside tolerance: the row pops, or is an orphan.
C21_PlainUnsignedDifference ==
  [][RowMatched =>
       LET e == MatchedRow
           a == e.fee_bco
           b == e.cached.first
           reused == /\ e.lvl1_bco = e.cached.second
                     /\ bco_list_map' = bco_list_map
                     /\ MatchStateAfter(e.fee_id) = e.cached
           popped == /\ ListSeenBy(e) # <<>>
                     /\ e.lvl1_bco = Head(ListSeenBy(e))
                     /\ e.list = Tail(ListSeenBy(e))
                     /\ MatchStateAfter(e.fee_id) =
                          [first |-> a, second |-> Head(ListSeenBy(e))]
           orphaned == /\ ListSeenBy(e) = <<>>
                       /\ e.lvl1_bco = 0
                       /\ e.has_list /\ e.list = <<>>
                       /\ MatchStateAfter(e.fee_id) = e.cached
       IN /\ get_bco_diff(a, b) = get_bco_diff(b, a)
          /\ PlainDistanceBelow(a, b, Tolerance) => reused
          /\ ~PlainDistanceBelow(a, b, Tolerance) => popped \/ orphaned
          /\ (AcrossRollover(a, b) \/ AcrossRollover(b, a))
               => /\ ~PlainDistanceBelow(a, b, Tolerance)
                  /\ popped \/ orphaned]_vars

\* the FEE whose pair was at 2^32 - 3 and 1000 got a row of fee_bco 2, which
\* took 2000 from the list; and a row 5 below 2^32 - 3 had reused the 1000
C21_Witness ==
  \E k, l \in DOMAIN wf_log :
    /\ k < l
    /\ AcrossRollover(wf_log[l].fee_bco, wf_log[l].cached.first)
    /\ wf_log[l].cached.second = 1000
    /\ wf_log[l].lvl1_bco = 2000
    /\ High(wf_log[k].fee_bco) = 65535 /\ Low(wf_log[k].fee_bco) = 65528
    /\ wf_log[k].cached = wf_log[l].cached
    /\ wf_log[k].lvl1_bco = 1000

----------------------------------------------------------------------------
(* C22 *)

\* the step is the start of a call of process_event: an event is read
EventRead == events_seen' = events_seen + 1

\* C22: discarded events. A call of process_event on an event of type 8 or
\* more returns DISCARDEVENT at once: the container, the running pair of
\* every FEE and the histogram are as before the call, the tree is not
\* filled and no packet is looked at. A call on an event of a type below 8
\* is not discarded: it enters the packet loop.
C22_DiscardedWithoutEffect ==
  [][EventRead =>
       /\ evt_type' >= 8 =>
            /\ return_code' = DISCARDEVENT
            /\ pc' = "idle"
            /\ UNCHANGED <<m_container, m_fee_bco_matching_map, m_bco_map,
                           tree_entries, sample_map, waveform_map>>
       /\ evt_type' < 8 =>
            /\ return_code' # DISCARDEVENT
            /\ pc' = "packets"]_vars

\* an event of type 8 was discarded after an event that was processed: the
\* container still holds the samples of that event, and the pairs and the
\* histogram what it left
C22_Witness ==
  /\ return_code = DISCARDEVENT
  /\ evt_type = 8
  /\ tree_entries = 1
  /\ m_container.samples # <<>>
  /\ m_fee_bco_matching_map # EmptyMap
  /\ m_bco_map # EmptyMap

====
